---------------------------- MODULE Spec2Model ----------------------------
(* Model of the LRU cache of skantay/lru-api (internal/cache/cache.go):    *)
(* a map from key to *node plus a doubly linked recency list (most ...     *)
(* least), a length counter, a fixed capacity and a default TTL.  Nodes    *)
(* live in a heap addressed by node ids, so that prev/next are pointers    *)
(* exactly as in the source and a stale link would be visible.  Every      *)
(* public method runs under the single mutex, so in Spec one action is one *)
(* call; SpecService calls the cache through the service layer,            *)
(* SpecConcurrent has several goroutines make their calls in steps, and    *)
(* SpecEvictAll follows Service.EvictAll frame by frame.                   *)
EXTENDS Integers, Sequences, FiniteSets, TLC

\* ------------------------------------------------------------- bounds
MaxKeys == 3
MaxCap == 2
MaxTime == 3
MaxTTL == 1
NumCallers == 2          \* goroutines calling the cache at the same time
MaxCalls == 3            \* calls made in one concurrent run
StackLimit == 3          \* frames a goroutine's stack holds (stands for 1 GB)

KeyNames == <<"k1", "k2", "k3", "k4", "k5">>
Keys == {KeyNames[i] : i \in 1..MaxKeys}
Values == {"a", "b"}
TTLs == 0..MaxTTL
DefaultTTLs == {2}
NodeIds == 1..(MaxKeys + MaxCap + 1)

\* ---------------------------------------------------- program constants
Nil == 0                 \* the nil *node
NilValue == "nil"        \* the nil interface{} returned on failure
ZeroTime == 0            \* time.Time{}; every time.Now() is later
StartTime == 1
UintModulus == 2^30      \* wrap-around of the unsigned len (stands for 2^64)

ErrNone == "nil"
ErrKeyDoesNotExist == "key does not exist"
ErrInvalidCacheSize == "invalid cache size"
ErrCtx == "context canceled"

VARIABLES
    cap, defaultTTL,     \* LRUCache.cap, LRUCache.defaultTTL
    len,                 \* LRUCache.len
    values,              \* LRUCache.values: key -> node id
    most, least,         \* LRUCache.most, LRUCache.least
    heap,                \* the nodes: node id -> [key, value, ttl, prev, next]
    now,                 \* the clock read by time.Now()
    last,                \* the last step: a call with its arguments and what it
                         \* returned, or a tick of the clock
    touchLog,            \* history: the keys held, by last successful Put or
                         \* live Get, oldest first
    putLog,              \* history: for each key held, the arguments and time
                         \* of its most recent successful Put
    mu,                  \* LRUCache.m: the caller holding it, or Unlocked
    callers,             \* each goroutine: where it is in its call, the
                         \* arguments, its context and what it read
    ser,                 \* history: the cache the calls would have left had
                         \* they run one at a time in lock order
    ncalls,              \* the calls made so far in the concurrent run
    frames               \* the frames of service.go's Service.EvictAll on
                         \* the stack of the goroutine that called it

vars == <<cap, defaultTTL, len, values, most, least, heap, now, last,
          touchLog, putLog, mu, callers, ser, ncalls, frames>>

\* What the one-call-at-a-time actions leave alone.
concVars == <<mu, callers, ser, ncalls, frames>>

\* ------------------------------------------------------------ helpers
EmptyMap == [k \in {} |-> Nil]

MapDelete(m, k) == [x \in (DOMAIN m) \ {k} |-> m[x]]

MapPut(m, k, v) == [x \in (DOMAIN m) \cup {k} |-> IF x = k THEN v ELSE m[x]]

\* The cache as one value, as the methods' receiver l.
Cache == [defaultTTL |-> defaultTTL, len |-> len, cap |-> cap, values |-> values,
          most |-> most, least |-> least, heap |-> heap]

\* Node ids reachable from the cache's roots (the map, most, least) through
\* prev/next: everything else is garbage and is collected.
RECURSIVE ReachFrom(_, _)
ReachFrom(h, S) ==
    LET T == S \cup {h[n].prev : n \in S} \cup {h[n].next : n \in S}
        U == T \ {Nil}
    IN IF U = S THEN S ELSE ReachFrom(h, U)

KeyIndex(k) == CHOOSE i \in DOMAIN KeyNames : KeyNames[i] = k

\* Garbage collection: the nodes no root reaches are freed.  Addresses are
\* not observable, so the nodes kept are moved to canonical addresses: a
\* node the map holds to the index of its key, any other after those.
Collect(c) ==
    LET mapped == {c.values[k] : k \in DOMAIN c.values}
        live == ReachFrom(c.heap, (mapped \cup {c.most, c.least}) \ {Nil})
        others == live \ mapped
        keyAt == [n \in mapped |->
                     LET is == {KeyIndex(k) : k \in {x \in DOMAIN c.values : c.values[x] = n}}
                     IN CHOOSE i \in is : \A j \in is : i <= j]
        addr == [n \in live \cup {Nil} |->
                    IF n = Nil THEN Nil
                    ELSE IF n \in mapped THEN keyAt[n]
                    ELSE MaxKeys + Cardinality({m \in others : m <= n})]
    IN [c EXCEPT !.values = [k \in DOMAIN c.values |-> addr[c.values[k]]],
                 !.most = addr[c.most],
                 !.least = addr[c.least],
                 !.heap = [i \in {addr[n] : n \in live} |->
                              LET n == CHOOSE m \in live : addr[m] = i
                              IN [c.heap[n] EXCEPT !.prev = addr[@], !.next = addr[@]]]]

\* &node{...}: the address of a newly allocated node.
NewNodeId(h) == CHOOSE n \in NodeIds \ DOMAIN h : \A m \in NodeIds \ DOMAIN h : n <= m

\* ------------------------------------------- private list maintenance
\* Mutant of updateNode: the node keeps its place in the list.
updateNode_keepsPlace(c, node) == c

\* updateNode: unlink the node and relink it at the head.
updateNode(c, node) ==
    IF node # c.most
    THEN LET h1 == IF c.heap[node].prev # Nil
                   THEN [c.heap EXCEPT ![c.heap[node].prev].next = c.heap[node].next]
                   ELSE c.heap
             h2 == IF h1[node].next # Nil
                   THEN [h1 EXCEPT ![h1[node].next].prev = h1[node].prev]
                   ELSE h1
             least1 == IF node = c.least THEN h2[node].prev ELSE c.least
             h3 == [h2 EXCEPT ![node].prev = Nil, ![node].next = c.most]
             h4 == IF c.most # Nil THEN [h3 EXCEPT ![c.most].prev = node] ELSE h3
         IN [c EXCEPT !.heap = h4, !.least = least1, !.most = node]
    ELSE c

\* Mutant of evictNode: most is not moved off the node removed.
evictNode_keepsMost(c, node) ==
    LET h1 == IF c.heap[node].prev # Nil
              THEN [c.heap EXCEPT ![c.heap[node].prev].next = c.heap[node].next]
              ELSE c.heap
        h2 == IF h1[node].next # Nil
              THEN [h1 EXCEPT ![h1[node].next].prev = h1[node].prev]
              ELSE h1
        least1 == IF node = c.least THEN h2[node].prev ELSE c.least
    IN [c EXCEPT !.heap = h2, !.least = least1,
                 !.values = MapDelete(c.values, h2[node].key),
                 !.len = (c.len - 1) % UintModulus]

\* Mutant of evictNode: the node after the one removed keeps its prev.
evictNode_keepsBackLink(c, node) ==
    LET h1 == IF c.heap[node].prev # Nil
              THEN [c.heap EXCEPT ![c.heap[node].prev].next = c.heap[node].next]
              ELSE c.heap
        most1 == IF node = c.most THEN h1[node].next ELSE c.most
        least1 == IF node = c.least THEN h1[node].prev ELSE c.least
    IN [c EXCEPT !.heap = h1, !.most = most1, !.least = least1,
                 !.values = MapDelete(c.values, h1[node].key),
                 !.len = (c.len - 1) % UintModulus]

\* evictNode: unlink the node, drop its key from the map, decrement len.
evictNode(c, node) ==
    LET h1 == IF c.heap[node].prev # Nil
              THEN [c.heap EXCEPT ![c.heap[node].prev].next = c.heap[node].next]
              ELSE c.heap
        h2 == IF h1[node].next # Nil
              THEN [h1 EXCEPT ![h1[node].next].prev = h1[node].prev]
              ELSE h1
        most1 == IF node = c.most THEN h2[node].next ELSE c.most
        least1 == IF node = c.least THEN h2[node].prev ELSE c.least
    IN [c EXCEPT !.heap = h2, !.most = most1, !.least = least1,
                 !.values = MapDelete(c.values, h2[node].key),
                 !.len = (c.len - 1) % UintModulus]

\* Mutant of createNode: the cache grows even when it is full.
createNode_grows(c, key, node) ==
    LET h1 == IF c.most # Nil THEN [c.heap EXCEPT ![c.most].prev = node] ELSE c.heap
        least1 == IF c.least = Nil THEN node ELSE c.least
    IN [c EXCEPT !.heap = h1, !.most = node, !.least = least1,
                 !.len = (c.len + 1) % UintModulus,
                 !.values = MapPut(c.values, key, node)]

\* Mutant of createNode: the least recently used node is dropped one entry
\* before the cache is full.
createNode_evictsEarly(c, key, node) ==
    LET h1 == IF c.most # Nil THEN [c.heap EXCEPT ![c.most].prev = node] ELSE c.heap
        least1 == IF c.least = Nil THEN node ELSE c.least
        full == c.len + 1 >= c.cap
        drop == full /\ c.len > 0
        leastPrev == IF drop THEN h1[least1].prev ELSE Nil
        values1 == IF drop THEN MapDelete(c.values, h1[least1].key) ELSE c.values
        least2 == IF drop THEN leastPrev ELSE least1
        h2 == IF drop /\ least2 # Nil THEN [h1 EXCEPT ![least2].next = Nil] ELSE h1
        len1 == IF drop THEN c.len ELSE (c.len + 1) % UintModulus
    IN [c EXCEPT !.heap = h2, !.most = node, !.least = least2, !.len = len1,
                 !.values = MapPut(values1, key, node)]

\* Mutant of createNode: the node dropped stays in the index.
createNode_keepsIndexed(c, key, node) ==
    LET h1 == IF c.most # Nil THEN [c.heap EXCEPT ![c.most].prev = node] ELSE c.heap
        least1 == IF c.least = Nil THEN node ELSE c.least
        full == c.len = c.cap
        drop == full /\ least1 # Nil
        leastPrev == IF drop THEN h1[least1].prev ELSE Nil
        least2 == IF drop THEN leastPrev ELSE least1
        h2 == IF drop /\ least2 # Nil THEN [h1 EXCEPT ![least2].next = Nil] ELSE h1
        len1 == IF full THEN c.len ELSE (c.len + 1) % UintModulus
    IN [c EXCEPT !.heap = h2, !.most = node, !.least = least2, !.len = len1,
                 !.values = MapPut(c.values, key, node)]

\* createNode: link the (already allocated) node at the head; when the cache
\* is full drop the least recently used node instead of growing.
createNode(c, key, node) ==
    LET h1 == IF c.most # Nil THEN [c.heap EXCEPT ![c.most].prev = node] ELSE c.heap
        least1 == IF c.least = Nil THEN node ELSE c.least
        full == c.len = c.cap
        drop == full /\ least1 # Nil
        leastPrev == IF drop THEN h1[least1].prev ELSE Nil
        values1 == IF drop THEN MapDelete(c.values, h1[least1].key) ELSE c.values
        least2 == IF drop THEN leastPrev ELSE least1
        h2 == IF drop /\ least2 # Nil THEN [h1 EXCEPT ![least2].next = Nil] ELSE h1
        len1 == IF full THEN c.len ELSE (c.len + 1) % UintModulus
    IN [c EXCEPT !.heap = h2, !.most = node, !.least = least2, !.len = len1,
                 !.values = MapPut(values1, key, node)]

\* ------------------------------------------------------ public methods
\* The nil *LRUCache.
NoCache == [nil |-> TRUE]

\* Mutant of New: a cache of capacity 0 is built.
New_acceptsZero(cacheSize, ttl) ==
    [err |-> ErrNone,
     cache |-> [defaultTTL |-> ttl, len |-> 0, cap |-> cacheSize,
                values |-> EmptyMap, most |-> Nil, least |-> Nil,
                heap |-> EmptyMap]]

\* New: the constructor; no cache when cacheSize is 0.
New(cacheSize, ttl) ==
    IF cacheSize = 0
    THEN [err |-> ErrInvalidCacheSize, cache |-> NoCache]
    ELSE [err |-> ErrNone,
          cache |-> [defaultTTL |-> ttl, len |-> 0, cap |-> cacheSize,
                     values |-> EmptyMap, most |-> Nil, least |-> Nil,
                     heap |-> EmptyMap]]

\* A call as its caller sees it: the method, the key it was given and what
\* it returned; held is the set of keys in the index when it was made.
Result(op, key, ret, expiresAt, err, ks, vs) ==
    [op |-> op, key |-> key, held |-> DOMAIN values, ret |-> ret,
     expiresAt |-> expiresAt, err |-> err, keys |-> ks, vals |-> vs]

\* Mutant of Put: a ttl of 0 is used as it is, not replaced by the default.
Put_zeroTTL(c, cancelled, t, key, value, ttl) ==
    IF cancelled
    THEN [cache |-> c, err |-> ErrCtx]
    ELSE LET expiration == t + ttl
         IN IF key \notin DOMAIN c.values
            THEN LET node == NewNodeId(c.heap)
                     h0 == MapPut(c.heap, node,
                                  [key |-> key, value |-> value, ttl |-> expiration,
                                   prev |-> Nil, next |-> c.most])
                 IN [cache |-> createNode([c EXCEPT !.heap = h0], key, node),
                     err |-> ErrNone]
            ELSE LET nodeFound == c.values[key]
                     h0 == [c.heap EXCEPT ![nodeFound].value = value,
                                          ![nodeFound].ttl = expiration]
                 IN [cache |-> updateNode([c EXCEPT !.heap = h0], nodeFound),
                     err |-> ErrNone]

\* Mutant of Put: a known key has its expiry extended by the ttl.
Put_extendsExpiry(c, cancelled, t, key, value, ttl) ==
    IF cancelled
    THEN [cache |-> c, err |-> ErrCtx]
    ELSE LET ttl1 == IF ttl = 0 THEN c.defaultTTL ELSE ttl
             expiration == t + ttl1
         IN IF key \notin DOMAIN c.values
            THEN LET node == NewNodeId(c.heap)
                     h0 == MapPut(c.heap, node,
                                  [key |-> key, value |-> value, ttl |-> expiration,
                                   prev |-> Nil, next |-> c.most])
                 IN [cache |-> createNode([c EXCEPT !.heap = h0], key, node),
                     err |-> ErrNone]
            ELSE LET nodeFound == c.values[key]
                     h0 == [c.heap EXCEPT ![nodeFound].value = value,
                                          ![nodeFound].ttl = @ + ttl1]
                 IN [cache |-> updateNode([c EXCEPT !.heap = h0], nodeFound),
                     err |-> ErrNone]

\* Put: ttl 0 means the default TTL; a new key gets a new node, a known key
\* is overwritten in place and moved to the head.
Put(c, cancelled, t, key, value, ttl) ==
    IF cancelled
    THEN [cache |-> c, err |-> ErrCtx]
    ELSE LET ttl1 == IF ttl = 0 THEN c.defaultTTL ELSE ttl
             expiration == t + ttl1
         IN IF key \notin DOMAIN c.values
            THEN LET node == NewNodeId(c.heap)
                     h0 == MapPut(c.heap, node,
                                  [key |-> key, value |-> value, ttl |-> expiration,
                                   prev |-> Nil, next |-> c.most])
                 IN [cache |-> createNode([c EXCEPT !.heap = h0], key, node),
                     err |-> ErrNone]
            ELSE LET nodeFound == c.values[key]
                     h0 == [c.heap EXCEPT ![nodeFound].value = value,
                                          ![nodeFound].ttl = expiration]
                 IN [cache |-> updateNode([c EXCEPT !.heap = h0], nodeFound),
                     err |-> ErrNone]

\* Mutant of Get: an entry counts as expired from its expiry time on.
Get_expiredAtExpiry(c, cancelled, t, key) ==
    IF cancelled
    THEN [cache |-> c, value |-> NilValue, expiresAt |-> ZeroTime, err |-> ErrCtx]
    ELSE IF key \notin DOMAIN c.values
    THEN [cache |-> c, value |-> NilValue, expiresAt |-> ZeroTime,
          err |-> ErrKeyDoesNotExist]
    ELSE LET node == c.values[key]
         IN IF t >= c.heap[node].ttl
            THEN [cache |-> evictNode(c, node), value |-> NilValue,
                  expiresAt |-> ZeroTime, err |-> ErrKeyDoesNotExist]
            ELSE LET c1 == updateNode(c, node)
                 IN [cache |-> c1, value |-> c1.heap[node].value,
                     expiresAt |-> ZeroTime, err |-> ErrNone]

\* Mutant of Get: an expired entry is refused but left in the cache.
Get_keepsExpired(c, cancelled, t, key) ==
    IF cancelled
    THEN [cache |-> c, value |-> NilValue, expiresAt |-> ZeroTime, err |-> ErrCtx]
    ELSE IF key \notin DOMAIN c.values
    THEN [cache |-> c, value |-> NilValue, expiresAt |-> ZeroTime,
          err |-> ErrKeyDoesNotExist]
    ELSE LET node == c.values[key]
         IN IF t > c.heap[node].ttl
            THEN [cache |-> c, value |-> NilValue,
                  expiresAt |-> ZeroTime, err |-> ErrKeyDoesNotExist]
            ELSE LET c1 == updateNode(c, node)
                 IN [cache |-> c1, value |-> c1.heap[node].value,
                     expiresAt |-> ZeroTime, err |-> ErrNone]

\* Mutant of Get: a live hit gives the entry a new expiry from the default
\* TTL.
Get_refreshesExpiry(c, cancelled, t, key) ==
    IF cancelled
    THEN [cache |-> c, value |-> NilValue, expiresAt |-> ZeroTime, err |-> ErrCtx]
    ELSE IF key \notin DOMAIN c.values
    THEN [cache |-> c, value |-> NilValue, expiresAt |-> ZeroTime,
          err |-> ErrKeyDoesNotExist]
    ELSE LET node == c.values[key]
         IN IF t > c.heap[node].ttl
            THEN [cache |-> evictNode(c, node), value |-> NilValue,
                  expiresAt |-> ZeroTime, err |-> ErrKeyDoesNotExist]
            ELSE LET c1 == updateNode(c, node)
                     c2 == [c1 EXCEPT !.heap[node].ttl = t + c.defaultTTL]
                 IN [cache |-> c2, value |-> c2.heap[node].value,
                     expiresAt |-> ZeroTime, err |-> ErrNone]

\* Get: the named result expiresAt is never assigned, so it is returned as
\* the zero time on every path.
Get(c, cancelled, t, key) ==
    IF cancelled
    THEN [cache |-> c, value |-> NilValue, expiresAt |-> ZeroTime, err |-> ErrCtx]
    ELSE IF key \notin DOMAIN c.values
    THEN [cache |-> c, value |-> NilValue, expiresAt |-> ZeroTime,
          err |-> ErrKeyDoesNotExist]
    ELSE LET node == c.values[key]
         IN IF t > c.heap[node].ttl
            THEN [cache |-> evictNode(c, node), value |-> NilValue,
                  expiresAt |-> ZeroTime, err |-> ErrKeyDoesNotExist]
            ELSE LET c1 == updateNode(c, node)
                 IN [cache |-> c1, value |-> c1.heap[node].value,
                     expiresAt |-> ZeroTime, err |-> ErrNone]

\* Mutant of GetAllLoop: expired entries are left out but not evicted.
RECURSIVE GetAllLoop_keepsExpired(_, _, _, _, _)
GetAllLoop_keepsExpired(c, t, order, ks, vs) ==
    IF order = <<>>
    THEN [cache |-> c, keys |-> ks, vals |-> vs]
    ELSE LET key == Head(order)
             node == c.values[key]
         IN IF t > c.heap[node].ttl
            THEN GetAllLoop_keepsExpired(c, t, Tail(order), ks, vs)
            ELSE GetAllLoop_keepsExpired(c, t, Tail(order), Append(ks, key),
                                         Append(vs, c.heap[node].value))

\* Mutant of GetAllLoop: every entry listed is moved to the head.
RECURSIVE GetAllLoop_touches(_, _, _, _, _)
GetAllLoop_touches(c, t, order, ks, vs) ==
    IF order = <<>>
    THEN [cache |-> c, keys |-> ks, vals |-> vs]
    ELSE LET key == Head(order)
             node == c.values[key]
         IN IF t > c.heap[node].ttl
            THEN GetAllLoop_touches(evictNode(c, node), t, Tail(order), ks, vs)
            ELSE GetAllLoop_touches(updateNode(c, node), t, Tail(order),
                                    Append(ks, key), Append(vs, c.heap[node].value))

\* The loop of GetAll over the map, in the iteration order given.
RECURSIVE GetAllLoop(_, _, _, _, _)
GetAllLoop(c, t, order, ks, vs) ==
    IF order = <<>>
    THEN [cache |-> c, keys |-> ks, vals |-> vs]
    ELSE LET key == Head(order)
             node == c.values[key]
         IN IF t > c.heap[node].ttl
            THEN GetAllLoop(evictNode(c, node), t, Tail(order), ks, vs)
            ELSE GetAllLoop(c, t, Tail(order), Append(ks, key),
                            Append(vs, c.heap[node].value))

\* Mutant of GetAll: the cancellation is looked at after the loop.
GetAll_checksCtxLate(c, cancelled, t, order) ==
    LET r == GetAllLoop(c, t, order, <<>>, <<>>)
    IN IF cancelled
       THEN [cache |-> r.cache, keys |-> <<>>, vals |-> <<>>, err |-> ErrCtx]
       ELSE [cache |-> r.cache, keys |-> r.keys, vals |-> r.vals, err |-> ErrNone]

\* GetAll: order is the order in which range walks the map.
GetAll(c, cancelled, t, order) ==
    IF cancelled
    THEN [cache |-> c, keys |-> <<>>, vals |-> <<>>, err |-> ErrCtx]
    ELSE LET r == GetAllLoop(c, t, order, <<>>, <<>>)
         IN [cache |-> r.cache, keys |-> r.keys, vals |-> r.vals, err |-> ErrNone]

\* Mutant of Evict: a key that is absent is reported as removed.
Evict_absentSucceeds(c, cancelled, key) ==
    IF cancelled
    THEN [cache |-> c, value |-> NilValue, err |-> ErrCtx]
    ELSE IF key \notin DOMAIN c.values
    THEN [cache |-> c, value |-> NilValue, err |-> ErrNone]
    ELSE LET node == c.values[key]
         IN [cache |-> evictNode(c, node), value |-> c.heap[node].value,
             err |-> ErrNone]

\* Evict: remove the key, expired or not, and return its value.
Evict(c, cancelled, key) ==
    IF cancelled
    THEN [cache |-> c, value |-> NilValue, err |-> ErrCtx]
    ELSE IF key \notin DOMAIN c.values
    THEN [cache |-> c, value |-> NilValue, err |-> ErrKeyDoesNotExist]
    ELSE LET node == c.values[key]
         IN [cache |-> evictNode(c, node), value |-> c.heap[node].value,
             err |-> ErrNone]

\* Mutant of EvictAll: least is not reset.
EvictAll_keepsLeast(c, cancelled) ==
    IF cancelled
    THEN [cache |-> c, err |-> ErrCtx]
    ELSE [cache |-> [c EXCEPT !.values = EmptyMap, !.len = 0, !.most = Nil],
          err |-> ErrNone]

\* EvictAll: empty the map and reset len, most and least.
EvictAll(c, cancelled) ==
    IF cancelled
    THEN [cache |-> c, err |-> ErrCtx]
    ELSE [cache |-> [c EXCEPT !.values = EmptyMap, !.len = 0,
                              !.most = Nil, !.least = Nil],
          err |-> ErrNone]

\* ------------------------------------------------------------ actions
Store(c) ==
    /\ cap' = c.cap
    /\ defaultTTL' = c.defaultTTL
    /\ len' = c.len
    /\ values' = c.values
    /\ most' = c.most
    /\ least' = c.least
    /\ heap' = c.heap

\* The key moves to the end of the log of touches.
Touch(log, key) == Append(SelectSeq(log, LAMBDA x : x # key), key)

\* The histories keep the keys that are still in the index.
Held(log, c) == SelectSeq(log, LAMBDA x : x \in DOMAIN c.values)

HeldPuts(puts, c) == [k \in (DOMAIN puts) \cap (DOMAIN c.values) |-> puts[k]]

NoCall == [op |-> "none", key |-> "", held |-> {}, ret |-> NilValue,
           expiresAt |-> ZeroTime, err |-> ErrNone, keys |-> <<>>, vals |-> <<>>]

\* The call of New, with its arguments and what it returned.
NewCall(cacheSize, ttl, r) ==
    [op |-> "New", key |-> "", held |-> {}, ret |-> NilValue,
     expiresAt |-> ZeroTime, err |-> r.err, keys |-> <<>>, vals |-> <<>>,
     cacheSize |-> cacheSize, ttl |-> ttl, nilCache |-> (r.cache = NoCache)]

\* What the variables hold when New returned no cache.
ZeroFields == [defaultTTL |-> 0, len |-> 0, cap |-> 0, values |-> EmptyMap,
               most |-> Nil, least |-> Nil, heap |-> EmptyMap]

\* New returned no cache: there is nothing to call.
NothingBuilt == last.op = "New" /\ last.nilCache

\* New returned a cache.
Built == ~NothingBuilt

\* The zero sync.Mutex: nobody holds it.
Unlocked == 0

Callers == 1..NumCallers

\* What a call returns.
Outcome(ret, expiresAt, err, ks, vs) ==
    [ret |-> ret, expiresAt |-> expiresAt, err |-> err, keys |-> ks, vals |-> vs]

\* A goroutine that is in no call.
IdleCaller ==
    [pc |-> "idle", op |-> "none", key |-> "", value |-> NilValue, ttl |-> 0,
     done |-> FALSE, obs |-> FALSE, t |-> ZeroTime, order |-> <<>>,
     snap |-> NoCache, exp |-> Outcome(NilValue, ZeroTime, ErrNone, <<>>, <<>>)]

Init ==
    \E cacheSize \in 0..MaxCap, ttl \in DefaultTTLs :
        LET r == New(cacheSize, ttl)
            c == IF r.cache = NoCache THEN ZeroFields ELSE r.cache
        IN /\ cap = c.cap
           /\ defaultTTL = c.defaultTTL
           /\ len = c.len
           /\ values = c.values
           /\ most = c.most
           /\ least = c.least
           /\ heap = c.heap
           /\ now = StartTime
           /\ last = NewCall(cacheSize, ttl, r)
           /\ touchLog = <<>>
           /\ putLog = [k \in {} |-> [value |-> NilValue, at |-> ZeroTime, ttl |-> 0]]
           /\ mu = Unlocked
           /\ callers = [p \in Callers |-> IdleCaller]
           /\ ser = c
           /\ ncalls = 0
           /\ frames = 0

CallPut ==
    \E cancelled \in BOOLEAN, key \in Keys, value \in Values, ttl \in TTLs :
        \E r \in {Put(Cache, cancelled, now, key, value, ttl)} : \E c2 \in {Collect(r.cache)} :
           /\ Store(c2)
           /\ last' = Result("Put", key, NilValue, ZeroTime, r.err, <<>>, <<>>)
           /\ touchLog' = Held(IF r.err = ErrNone THEN Touch(touchLog, key) ELSE touchLog,
                               r.cache)
           /\ putLog' = HeldPuts(IF r.err = ErrNone
                                 THEN MapPut(putLog, key,
                                             [value |-> value, at |-> now, ttl |-> ttl])
                                 ELSE putLog, r.cache)
           /\ UNCHANGED <<now, concVars>>

CallGet ==
    \E cancelled \in BOOLEAN, key \in Keys :
        \E r \in {Get(Cache, cancelled, now, key)} : \E c2 \in {Collect(r.cache)} :
           /\ Store(c2)
           /\ last' = Result("Get", key, r.value, r.expiresAt, r.err, <<>>, <<>>)
           /\ touchLog' = Held(IF r.err = ErrNone THEN Touch(touchLog, key) ELSE touchLog,
                               r.cache)
           /\ putLog' = HeldPuts(putLog, r.cache)
           /\ UNCHANGED <<now, concVars>>

\* All orders in which range may walk a map with the given keys.
Orders(S) == {o \in [1..Cardinality(S) -> S] : \A i, j \in DOMAIN o : i # j => o[i] # o[j]}

CallGetAll ==
    \E cancelled \in BOOLEAN, order \in Orders(DOMAIN values) :
        \E r \in {GetAll(Cache, cancelled, now, order)} : \E c2 \in {Collect(r.cache)} :
           /\ Store(c2)
           /\ last' = Result("GetAll", "", NilValue, ZeroTime, r.err,
                             r.keys, r.vals)
           /\ touchLog' = Held(touchLog, r.cache)
           /\ putLog' = HeldPuts(putLog, r.cache)
           /\ UNCHANGED <<now, concVars>>

CallEvict ==
    \E cancelled \in BOOLEAN, key \in Keys :
        \E r \in {Evict(Cache, cancelled, key)} : \E c2 \in {Collect(r.cache)} :
           /\ Store(c2)
           /\ last' = Result("Evict", key, r.value, ZeroTime, r.err, <<>>, <<>>)
           /\ touchLog' = Held(touchLog, r.cache)
           /\ putLog' = HeldPuts(putLog, r.cache)
           /\ UNCHANGED <<now, concVars>>

CallEvictAll ==
    \E cancelled \in BOOLEAN :
        \E r \in {EvictAll(Cache, cancelled)} : \E c2 \in {Collect(r.cache)} :
           /\ Store(c2)
           /\ last' = Result("EvictAll", "", NilValue, ZeroTime, r.err,
                             <<>>, <<>>)
           /\ touchLog' = Held(touchLog, r.cache)
           /\ putLog' = HeldPuts(putLog, r.cache)
           /\ UNCHANGED <<now, concVars>>

\* Time passes between calls.
Tick ==
    /\ now < MaxTime
    /\ now' = now + 1
    /\ last' = NoCall
    /\ UNCHANGED <<cap, defaultTTL, len, values, most, least, heap, touchLog, putLog,
                   concVars>>

\* The methods are called on the cache New returned.
Next ==
    \/ Built /\ CallPut
    \/ Built /\ CallGet
    \/ Built /\ CallGetAll
    \/ Built /\ CallEvict
    \/ Built /\ CallEvictAll
    \/ Built /\ Tick

Spec == Init /\ [][Next]_vars

\* ------------------------------------------------- what claims observe
\* The keys met walking the recency list from a node along next.
RECURSIVE Walk(_, _, _)
Walk(h, n, fuel) ==
    IF n = Nil \/ fuel = 0 \/ n \notin DOMAIN h
    THEN <<>>
    ELSE <<h[n].key>> \o Walk(h, h[n].next, fuel - 1)

\* The recency list, most recently used first.
ListKeys == Walk(heap, most, Cardinality(NodeIds) + 1)

ValueOf(k) == heap[values[k]].value

ExpiryOf(k) == heap[values[k]].ttl

\* The same two, read after the step.
NextValueOf(k) == heap'[values'[k]].value

NextExpiryOf(k) == heap'[values'[k]].ttl

Without(seq, k) == SelectSeq(seq, LAMBDA x : x # k)

Range(seq) == {seq[i] : i \in DOMAIN seq}

\* The step is a call of the method that was not cancelled.
Ran(op) == last'.op = op /\ last'.err # ErrCtx

\* ---------------------------------------------------------------- C1
\* C1: the number of entries, as len and as the size of the index, is always
\* between 0 and the capacity; a Put of a new key into a full cache leaves
\* both at the capacity.
C1_PutNewFull ==
    /\ Ran("Put")
    /\ last'.key \notin DOMAIN values
    /\ len = cap

C1_LenWithinCapacity ==
    /\ [](0 <= len /\ len <= cap /\ Cardinality(DOMAIN values) <= cap)
    /\ [][C1_PutNewFull => len' = cap /\ Cardinality(DOMAIN values') = cap]_vars

\* A new key was just put into a full cache of capacity 2.
C1_Witness ==
    /\ cap = 2 /\ len = cap /\ Cardinality(DOMAIN values) = cap
    /\ last.op = "Put" /\ last.err = ErrNone
    /\ last.key \notin last.held /\ Cardinality(last.held) = cap
    /\ now = MaxTime

\* ---------------------------------------------------------------- C2
\* The held key whose last successful Put or live Get is the oldest.
OldestTouched == touchLog[1]

\* C2: a Put of a new key into a full cache removes exactly one key, the one
\* least recently touched by a successful Put or a live Get, whatever the
\* expiry of any entry.
C2_EvictsLeastRecentlyTouched ==
    [][C1_PutNewFull =>
          /\ Range(touchLog) = DOMAIN values
          /\ DOMAIN values' = ((DOMAIN values) \ {OldestTouched}) \cup {last'.key}
          /\ OldestTouched # last'.key]_vars

\* A new key was just put into a full cache of capacity 2, and the key that
\* survived the eviction is past its expiry.
C2_Witness ==
    /\ cap = 2 /\ len = 2
    /\ last.op = "Put" /\ last.err = ErrNone
    /\ last.key \notin last.held /\ Cardinality(last.held) = 2
    /\ \E k \in (DOMAIN values) \cap last.held : now > ExpiryOf(k)

\* ---------------------------------------------------------------- C3
\* C3: Get of a key that is in the index and not past its expiry (equality
\* included) returns no error and the value of the most recent Put of it.
C3_GetReturnsLastPut ==
    [][(/\ Ran("Get")
        /\ last'.key \in DOMAIN values
        /\ now <= ExpiryOf(last'.key))
       => (/\ last'.err = ErrNone
           /\ last'.ret = putLog[last'.key].value)]_vars

\* A hit exactly at the expiry time.
C3_Witness ==
    /\ last.op = "Get" /\ last.err = ErrNone
    /\ last.key \in last.held
    /\ now = ExpiryOf(last.key)

\* ---------------------------------------------------------------- C4
\* C4: Get of a key in the index whose expiry has passed fails with
\* KeyNotFound and removes the entry from the index and the recency list and
\* decrements len, so that a GetAll that follows does not list it and a Get
\* that follows fails.
C4_ExpiredGetEvicts ==
    [][(/\ Ran("Get")
        /\ last'.key \in DOMAIN values
        /\ now > ExpiryOf(last'.key))
       => (/\ last'.err = ErrKeyDoesNotExist
           /\ last'.ret = NilValue
           /\ DOMAIN values' = (DOMAIN values) \ {last'.key}
           /\ ListKeys' = Without(ListKeys, last'.key)
           /\ len' = len - 1
           /\ \A order \in Orders(DOMAIN values') :
                 last'.key \notin Range(GetAll(Cache', FALSE, now', order).keys)
           /\ Get(Cache', FALSE, now', last'.key).err = ErrKeyDoesNotExist)]_vars

\* Get just refused a key that was in the index, and removed it, while
\* another entry stays in the cache.
C4_Witness ==
    /\ last.op = "Get" /\ last.err = ErrKeyDoesNotExist
    /\ last.key \in last.held /\ last.key \notin DOMAIN values
    /\ len = 1 /\ cap = 2

\* ---------------------------------------------------------------- C5
\* C5: on a live hit Get returns as expiresAt the expiry stored for the key
\* by its most recent Put.
C5_GetReturnsExpiry ==
    [][(/\ Ran("Get")
        /\ last'.key \in DOMAIN values
        /\ now <= ExpiryOf(last'.key))
       => last'.expiresAt = ExpiryOf(last'.key)]_vars

\* ---------------------------------------------------------------- C6
\* The keys in the index that are not past their expiry.
LiveKeys == {k \in DOMAIN values : now <= ExpiryOf(k)}

\* C6: GetAll returns keys and values of equal length, position by position
\* of the same entry, holding each live entry exactly once and no expired
\* one; afterwards every entry that was expired is gone from the index and
\* the recency list, and len is reduced by their number.
C6_GetAllListsLiveAndEvictsExpired ==
    [][Ran("GetAll") =>
          /\ last'.err = ErrNone
          /\ Len(last'.keys) = Len(last'.vals)
          /\ \A i \in DOMAIN last'.keys :
                /\ last'.keys[i] \in DOMAIN values
                /\ last'.vals[i] = ValueOf(last'.keys[i])
          /\ Range(last'.keys) = LiveKeys
          /\ Len(last'.keys) = Cardinality(LiveKeys)
          /\ DOMAIN values' = LiveKeys
          /\ ListKeys' = SelectSeq(ListKeys, LAMBDA k : k \in LiveKeys)
          /\ len' = len - Cardinality((DOMAIN values) \ LiveKeys)]_vars

\* GetAll found two entries, listed one and removed the other.
C6_Witness ==
    /\ last.op = "GetAll" /\ last.err = ErrNone
    /\ Cardinality(last.held) = 2
    /\ Len(last.keys) = 1
    /\ DOMAIN values = Range(last.keys)

C8_EvictAbsentChangesNothing ==
    [][(Ran("Evict") /\ last'.key \notin DOMAIN values)
       => (/\ last'.err = ErrKeyDoesNotExist
           /\ last'.ret = NilValue
           /\ UNCHANGED <<cap, defaultTTL, len, values, most, least, heap>>)]_vars

\* Evict just refused a key absent from a cache that holds two others.
C8_Witness ==
    /\ last.op = "Evict" /\ last.err = ErrKeyDoesNotExist
    /\ last.key \notin last.held
    /\ Cardinality(last.held) = 2 /\ len = 2

\* ---------------------------------------------------------------- C9
\* C9: after a successful EvictAll the index is empty, len is 0, most and
\* least are nil; a GetAll that follows returns nothing, Get and Evict of any
\* key fail with KeyNotFound, and a Put inserts its key as the only entry.
C9_EvictAllEmpties ==
    (last.op = "EvictAll" /\ last.err = ErrNone)
    => (/\ DOMAIN values = {}
        /\ len = 0
        /\ most = Nil
        /\ least = Nil
        /\ GetAll(Cache, FALSE, now, <<>>).keys = <<>>
        /\ GetAll(Cache, FALSE, now, <<>>).vals = <<>>
        /\ \A k \in Keys :
              /\ Get(Cache, FALSE, now, k).err = ErrKeyDoesNotExist
              /\ Evict(Cache, FALSE, k).err = ErrKeyDoesNotExist
        /\ \A k \in Keys, v \in Values, ttl \in TTLs :
              LET r == Put(Cache, FALSE, now, k, v, ttl)
              IN /\ r.err = ErrNone
                 /\ DOMAIN r.cache.values = {k}
                 /\ r.cache.len = 1
                 /\ r.cache.most = r.cache.values[k]
                 /\ r.cache.least = r.cache.values[k]
                 /\ Get(r.cache, FALSE, now, k).value = v)

\* EvictAll just emptied a cache that held two entries.
C9_Witness ==
    /\ last.op = "EvictAll" /\ last.err = ErrNone
    /\ Cardinality(last.held) = 2

\* --------------------------------------------------------------- C10
\* C10: Put of a key already in the index stores the new value, moves the
\* key to the head of the recency list, keeps len and the set of keys as
\* they were, also when the cache is full, and sets the expiry from the time
\* of this Put and its ttl alone.
C10_PutExistingOverwrites ==
    [][(Ran("Put") /\ last'.key \in DOMAIN values)
       => (/\ last'.err = ErrNone
           /\ DOMAIN values' = DOMAIN values
           /\ len' = len
           /\ NextValueOf(last'.key) = putLog'[last'.key].value
           /\ ListKeys' = <<last'.key>> \o Without(ListKeys, last'.key)
           /\ NextExpiryOf(last'.key) =
                 now + (IF putLog'[last'.key].ttl = 0 THEN defaultTTL
                        ELSE putLog'[last'.key].ttl))]_vars

\* Put just overwrote the least recently used key of a full cache, with an
\* expiry earlier than the one of the other entry.
C10_Witness ==
    /\ last.op = "Put" /\ last.err = ErrNone
    /\ last.key \in last.held
    /\ cap = 2 /\ Cardinality(last.held) = 2
    /\ now > StartTime
    /\ \E k \in DOMAIN values : k # last.key /\ ExpiryOf(k) > ExpiryOf(last.key)

\* --------------------------------------------------------------- C11
\* C11: after a Put at time now the expiry stored for the key is now + ttl
\* when ttl is not zero and now + defaultTTL when it is, for a new key and
\* for a key already held.
C11_PutStoresExpiry ==
    [][Ran("Put") =>
          /\ last'.err = ErrNone
          /\ last'.key \in DOMAIN values'
          /\ putLog'[last'.key].at = now
          /\ NextExpiryOf(last'.key) =
                IF putLog'[last'.key].ttl # 0
                THEN now + putLog'[last'.key].ttl
                ELSE now + defaultTTL]_vars

\* A new key was just put with ttl 0 beside a key put earlier with its own
\* ttl, and the two expiries differ by more than the time between the Puts.
C11_Witness ==
    /\ last.op = "Put" /\ last.err = ErrNone
    /\ last.key \notin last.held
    /\ putLog[last.key].ttl = 0
    /\ ExpiryOf(last.key) = now + defaultTTL
    /\ \E k \in DOMAIN values :
          /\ putLog[k].ttl # 0
          /\ ExpiryOf(k) = putLog[k].at + putLog[k].ttl
          /\ putLog[k].at < now

\* --------------------------------------------------------------- C12
\* a comes before b in the sequence.
Precedes(seq, a, b) ==
    \E i, j \in DOMAIN seq : i < j /\ seq[i] = a /\ seq[j] = b

\* The keys a cache would hold after a Put of a new key.
KeysAfterPut(c, t, key) == DOMAIN Put(c, FALSE, t, key, "a", 0).cache.values

\* C12: GetAll keeps the relative recency order of the entries that survive
\* it: two live keys stay in the same order, a live tail stays the tail, and
\* a Put of a new key into the cache still full evicts the key it would
\* have evicted without the GetAll.
C12_GetAllKeepsRecency ==
    [][Ran("GetAll") =>
          /\ \A a, b \in LiveKeys :
                Precedes(ListKeys, a, b) <=> Precedes(ListKeys', a, b)
          /\ (least # Nil /\ heap[least].key \in LiveKeys) =>
                (least' # Nil /\ heap'[least'].key = heap[least].key)
          /\ (len = cap /\ len' = cap) =>
                \A k \in Keys \ DOMAIN values :
                   KeysAfterPut(Cache', now', k) = KeysAfterPut(Cache, now, k)]_vars

\* GetAll just listed the two entries of a full cache in the order opposite
\* to their recency.
C12_Witness ==
    /\ last.op = "GetAll" /\ last.err = ErrNone
    /\ cap = 2 /\ len = 2
    /\ Len(last.keys) = 2
    /\ last.keys[1] = ListKeys[2]
    /\ last.keys[2] = ListKeys[1]

\* --------------------------------------------------------------- C13
\* Why a key that was in the index may be gone after the step.
MayLeave(k) ==
    \/ Ran("Evict") /\ last'.key = k
    \/ Ran("EvictAll")
    \/ Ran("Put") /\ last'.key \notin DOMAIN values /\ len = cap
    \/ Ran("Get") /\ last'.key = k /\ now > ExpiryOf(k)
    \/ Ran("GetAll") /\ now > ExpiryOf(k)

\* C13: a key leaves the index only by Evict of it, EvictAll, the capacity
\* eviction of a Put of a new key into a full cache, Get of it when expired,
\* or GetAll when expired; until then an expired entry stays and counts in
\* len.
C13_LazyExpiration ==
    /\ [](len = Cardinality(DOMAIN values))
    /\ [][\A k \in (DOMAIN values) \ (DOMAIN values') : MayLeave(k)]_vars

\* An expired entry is still held, and counted, after a Put of another key
\* below capacity.
C13_Witness ==
    /\ last.op = "Put" /\ last.err = ErrNone
    /\ last.key \notin last.held
    /\ cap = 2 /\ len = 2
    /\ \E k \in last.held : k \in DOMAIN values /\ now > ExpiryOf(k)
    /\ Cardinality(last.held) = 1

\* --------------------------------------------------------------- C16
\* The fields of the cache.
CacheVars == <<cap, defaultTTL, len, values, most, least, heap>>

\* C16: each of the five calls, made with a cancellation that is already
\* triggered, returns the cancellation error and leaves the cache as it
\* was: nothing inserted, overwritten, moved or evicted.
C16_CancelledCallChangesNothing ==
    /\ [](/\ \A k \in Keys, v \in Values, ttl \in TTLs :
                Put(Cache, TRUE, now, k, v, ttl) = [cache |-> Cache, err |-> ErrCtx]
          /\ \A k \in Keys :
                /\ Get(Cache, TRUE, now, k).err = ErrCtx
                /\ Get(Cache, TRUE, now, k).cache = Cache
                /\ Evict(Cache, TRUE, k).err = ErrCtx
                /\ Evict(Cache, TRUE, k).cache = Cache
          /\ \A order \in Orders(DOMAIN values) :
                /\ GetAll(Cache, TRUE, now, order).err = ErrCtx
                /\ GetAll(Cache, TRUE, now, order).cache = Cache
          /\ EvictAll(Cache, TRUE) = [cache |-> Cache, err |-> ErrCtx])
    /\ [][last'.err = ErrCtx => UNCHANGED <<CacheVars, touchLog, putLog>>]_vars

\* A cancelled GetAll just left an expired entry in a full cache.
C16_Witness ==
    /\ last.op = "GetAll" /\ last.err = ErrCtx
    /\ cap = 2 /\ len = 2
    /\ \E k \in DOMAIN values : now > ExpiryOf(k)

\* --------------------------------------------------------------- C20
\* The nodes met walking the recency list from a node along next.
RECURSIVE WalkNodes(_, _, _)
WalkNodes(h, n, fuel) ==
    IF n = Nil \/ fuel = 0 \/ n \notin DOMAIN h
    THEN <<>>
    ELSE <<n>> \o WalkNodes(h, h[n].next, fuel - 1)

ListNodes == WalkNodes(heap, most, Cardinality(NodeIds) + 1)

\* C20: the index and the recency list hold the same entries: a key is in
\* the index exactly when its node is met walking from most along next to
\* least, no key is met twice, and len is the number of nodes met and the
\* number of keys in the index.
C20_IndexMatchesList ==
    /\ \A i, j \in DOMAIN ListNodes : i # j => ListKeys[i] # ListKeys[j]
    /\ Range(ListKeys) = DOMAIN values
    /\ \A k \in DOMAIN values :
          /\ values[k] \in Range(ListNodes)
          /\ heap[values[k]].key = k
    /\ \A i \in DOMAIN ListNodes : values[ListKeys[i]] = ListNodes[i]
    /\ (ListNodes = <<>>) <=> (least = Nil)
    /\ ListNodes # <<>> => ListNodes[Len(ListNodes)] = least
    /\ len = Len(ListNodes)
    /\ len = Cardinality(DOMAIN values)
    /\ len >= 0

\* Get just removed the expired head of a list of two.
C20_Witness ==
    /\ last.op = "Get" /\ last.err = ErrKeyDoesNotExist
    /\ last.key \in last.held
    /\ Cardinality(last.held) = 2
    /\ Len(ListNodes) = 1
    /\ now > ExpiryOf(ListKeys[1])

\* --------------------------------------------------------------- C18
\* C18: New with capacity 0 fails with the invalid-capacity error and returns
\* no cache; New with capacity c >= 1 returns an empty cache of capacity c
\* and the default TTL given; no later call changes capacity or default TTL.
C18_NewAndFixedCapacity ==
    /\ [](last.op = "New" =>
             IF last.cacheSize = 0
             THEN /\ last.err = ErrInvalidCacheSize
                  /\ last.nilCache
             ELSE /\ last.err = ErrNone
                  /\ ~last.nilCache
                  /\ cap = last.cacheSize
                  /\ defaultTTL = last.ttl
                  /\ len = 0
                  /\ DOMAIN values = {}
                  /\ most = Nil
                  /\ least = Nil)
    /\ [][cap' = cap /\ defaultTTL' = defaultTTL]_vars

\* New was just called with capacity 0.
C18_Witness ==
    /\ last.op = "New"
    /\ last.cacheSize = 0
    /\ last.err = ErrInvalidCacheSize

\* ====================================================== service layer
\* Errors as Go sees them through errors.Is: the chain an error unwraps to,
\* outermost first; nil is the empty chain.
ErrChain(e) == IF e = ErrNone THEN <<>> ELSE <<e>>

\* fmt.Errorf("<msg>: %w", err): a new error in front of the one it wraps.
Wrap(msg, chain) == <<msg>> \o chain

\* errors.Is(err, target): some error of the chain is the target.
Is(chain, target) == \E i \in DOMAIN chain : chain[i] = target

ErrInvalidKey == "no key provided"

StatusOK == 200
StatusCreated == 201
StatusNoContent == 204
StatusBadRequest == 400
StatusNotFound == 404
StatusInternalServerError == 500

\* Service.Put: refuses the empty key, else wraps what the cache returns.
ServicePut(c, cancelled, t, key, value, ttl) ==
    IF key = ""
    THEN [cache |-> c, cacheErr |-> ErrNone, err |-> ErrChain(ErrInvalidKey)]
    ELSE LET r == Put(c, cancelled, t, key, value, ttl)
         IN [cache |-> r.cache, cacheErr |-> r.err,
             err |-> IF r.err # ErrNone
                     THEN Wrap("failed to put into cache", ErrChain(r.err))
                     ELSE <<>>]

\* Mutant of ServiceGet: the cache's error is formatted into the message
\* and not wrapped.
ServiceGet_formatsError(c, cancelled, t, key) ==
    LET r == Get(c, cancelled, t, key)
    IN [cache |-> r.cache, value |-> r.value, expiresAt |-> r.expiresAt,
        cacheErr |-> r.err,
        err |-> IF r.err # ErrNone
                THEN <<"failed to get from cache">>
                ELSE <<>>]

\* Service.Get: wraps the cache's error with the call site.
ServiceGet(c, cancelled, t, key) ==
    LET r == Get(c, cancelled, t, key)
    IN [cache |-> r.cache, value |-> r.value, expiresAt |-> r.expiresAt,
        cacheErr |-> r.err,
        err |-> IF r.err # ErrNone
                THEN Wrap("failed to get from cache", ErrChain(r.err))
                ELSE <<>>]

\* Service.GetAll
ServiceGetAll(c, cancelled, t, order) ==
    LET r == GetAll(c, cancelled, t, order)
    IN [cache |-> r.cache, keys |-> r.keys, vals |-> r.vals, cacheErr |-> r.err,
        err |-> IF r.err # ErrNone
                THEN Wrap("failed to get all from cache", ErrChain(r.err))
                ELSE <<>>]

\* Service.Evict
ServiceEvict(c, cancelled, key) ==
    LET r == Evict(c, cancelled, key)
    IN [cache |-> r.cache, value |-> r.value, cacheErr |-> r.err,
        err |-> IF r.err # ErrNone
                THEN Wrap("failed to evict from cache", ErrChain(r.err))
                ELSE <<>>]

\* api.get: the status answered for what Get returned.
StatusOfGet(err) ==
    IF err # <<>>
    THEN IF Is(err, ErrKeyDoesNotExist) THEN StatusNotFound
         ELSE StatusInternalServerError
    ELSE StatusOK

\* api.delete: the status answered for what Evict returned.
StatusOfDelete(err) ==
    IF err # <<>> /\ Is(err, ErrKeyDoesNotExist)
    THEN StatusNotFound
    ELSE StatusNoContent

\* A call through the service: the cache's own error stays in err, the
\* error the service returns is svcErr, status what the handler answers.
ServiceResult(res, svcErr, status) ==
    res @@ [svcErr |-> svcErr, status |-> status]

SvcPut ==
    \E cancelled \in BOOLEAN, key \in Keys \cup {""}, value \in Values, ttl \in TTLs :
        \E r \in {ServicePut(Cache, cancelled, now, key, value, ttl)} :
        \E c2 \in {Collect(r.cache)} :
           /\ Store(c2)
           /\ last' = ServiceResult(
                         Result("Service.Put", key, NilValue, ZeroTime, r.cacheErr,
                                <<>>, <<>>),
                         r.err,
                         IF r.err # <<>> THEN StatusInternalServerError
                         ELSE StatusCreated)
           /\ touchLog' = Held(IF r.err = <<>> THEN Touch(touchLog, key) ELSE touchLog,
                               r.cache)
           /\ putLog' = HeldPuts(IF r.err = <<>>
                                 THEN MapPut(putLog, key,
                                             [value |-> value, at |-> now, ttl |-> ttl])
                                 ELSE putLog, r.cache)
           /\ UNCHANGED <<now, concVars>>

SvcGet ==
    \E cancelled \in BOOLEAN, key \in Keys :
        \E r \in {ServiceGet(Cache, cancelled, now, key)} :
        \E c2 \in {Collect(r.cache)} :
           /\ Store(c2)
           /\ last' = ServiceResult(
                         Result("Service.Get", key, r.value, r.expiresAt, r.cacheErr,
                                <<>>, <<>>),
                         r.err, StatusOfGet(r.err))
           /\ touchLog' = Held(IF r.err = <<>> THEN Touch(touchLog, key) ELSE touchLog,
                               r.cache)
           /\ putLog' = HeldPuts(putLog, r.cache)
           /\ UNCHANGED <<now, concVars>>

SvcGetAll ==
    \E cancelled \in BOOLEAN, order \in Orders(DOMAIN values) :
        \E r \in {ServiceGetAll(Cache, cancelled, now, order)} :
        \E c2 \in {Collect(r.cache)} :
           /\ Store(c2)
           /\ last' = ServiceResult(
                         Result("Service.GetAll", "", NilValue, ZeroTime, r.cacheErr,
                                r.keys, r.vals),
                         r.err,
                         IF r.err # <<>> THEN StatusInternalServerError
                         ELSE IF r.keys = <<>> /\ r.vals = <<>> THEN StatusNoContent
                         ELSE StatusOK)
           /\ touchLog' = Held(touchLog, r.cache)
           /\ putLog' = HeldPuts(putLog, r.cache)
           /\ UNCHANGED <<now, concVars>>

SvcEvict ==
    \E cancelled \in BOOLEAN, key \in Keys :
        \E r \in {ServiceEvict(Cache, cancelled, key)} :
        \E c2 \in {Collect(r.cache)} :
           /\ Store(c2)
           /\ last' = ServiceResult(
                         Result("Service.Evict", key, r.value, ZeroTime, r.cacheErr,
                                <<>>, <<>>),
                         r.err, StatusOfDelete(r.err))
           /\ touchLog' = Held(touchLog, r.cache)
           /\ putLog' = HeldPuts(putLog, r.cache)
           /\ UNCHANGED <<now, concVars>>

\* The cache called through the service.
NextService ==
    \/ Built /\ SvcPut
    \/ Built /\ SvcGet
    \/ Built /\ SvcGetAll
    \/ Built /\ SvcEvict
    \/ Built /\ Tick

SpecService == Init /\ [][NextService]_vars

\* --------------------------------------------------------------- C19
\* C19: Service.Get and Service.Evict put the call site in front of the
\* cache's error and keep it testable: when the cache returned KeyNotFound
\* the service's error still is KeyNotFound for errors.Is, so the handler
\* answers 404; when the cache succeeded the service returns no error.
C19_ServiceKeepsKeyNotFound ==
    last.op \in {"Service.Get", "Service.Evict"} =>
        /\ last.err = ErrKeyDoesNotExist =>
              /\ Is(last.svcErr, ErrKeyDoesNotExist)
              /\ last.status = StatusNotFound
        /\ last.err # ErrNone =>
              /\ Len(last.svcErr) = 2
              /\ last.svcErr[1] # last.err
              /\ last.svcErr[2] = last.err
        /\ last.err = ErrNone => last.svcErr = <<>>

\* Service.Get just met an expired key and returned the wrapped KeyNotFound.
C19_Witness ==
    /\ last.op = "Service.Get"
    /\ last.err = ErrKeyDoesNotExist
    /\ last.key \in last.held
    /\ last.status = StatusNotFound

\* ==================================================== concurrent callers
\* A call is made in steps: the goroutine starts it (Invoke); Put looks at
\* its context before it asks for the mutex (PutSelect); the goroutine
\* acquires the mutex and reads (Enter: Lock, the select of the other four
\* methods, time.Now() and the fields of the cache); it writes what the
\* method computed, the deferred Unlock runs and the call returns (Exit).
\* The context may be cancelled until the call has the mutex (Cancel) and the
\* clock may tick at any point.  last is what the last step returned: only
\* PutSelect and Exit return a call.

\* Mutant of CanLock: Lock returns whether or not the mutex is held.
CanLock_always(m) == TRUE

\* sync.Mutex.Lock returns only when nobody holds the mutex.
CanLock(m) == m = Unlocked

\* Mutant of Unlock: the mutex stays held when the call fails.
Unlock_keptOnError(p, err) == IF err # ErrNone THEN p ELSE Unlocked

\* The deferred sync.Mutex.Unlock: runs however the call returns.
Unlock(p, err) == Unlocked

\* The order given, made an order of the keys of c: the keys c lacks dropped
\* and the keys it has besides put behind.  It is the order given when c
\* has exactly its keys.
RECURSIVE Listed(_)
Listed(S) ==
    IF S = {} THEN <<>>
    ELSE LET k == CHOOSE x \in S : \A y \in S : KeyIndex(x) <= KeyIndex(y)
         IN <<k>> \o Listed(S \ {k})

OrderOf(order, c) ==
    SelectSeq(order, LAMBDA k : k \in DOMAIN c.values)
        \o Listed(DOMAIN c.values \ {order[i] : i \in DOMAIN order})

\* The method of the call k run on cache c, after Lock.  Put looked at its
\* context before Lock and does not look again; the other four look now.
Run(c, k, cancelled, t, order) ==
    CASE k.op = "Put" ->
           LET r == Put(c, FALSE, t, k.key, k.value, k.ttl)
           IN [cache |-> r.cache,
               out |-> Outcome(NilValue, ZeroTime, r.err, <<>>, <<>>)]
      [] k.op = "Get" ->
           LET r == Get(c, cancelled, t, k.key)
           IN [cache |-> r.cache,
               out |-> Outcome(r.value, r.expiresAt, r.err, <<>>, <<>>)]
      [] k.op = "GetAll" ->
           LET r == GetAll(c, cancelled, t, order)
           IN [cache |-> r.cache,
               out |-> Outcome(NilValue, ZeroTime, r.err, r.keys, r.vals)]
      [] k.op = "Evict" ->
           LET r == Evict(c, cancelled, k.key)
           IN [cache |-> r.cache,
               out |-> Outcome(r.value, ZeroTime, r.err, <<>>, <<>>)]
      [] k.op = "EvictAll" ->
           LET r == EvictAll(c, cancelled)
           IN [cache |-> r.cache,
               out |-> Outcome(NilValue, ZeroTime, r.err, <<>>, <<>>)]

\* The calls a goroutine may make: as many keys as the largest capacity,
\* one value, stored for the longest ttl a caller gives.
CallKeys == {KeyNames[i] : i \in 1..MaxCap}

CallValues == {"a"}

Calls ==
    [op : {"Put"}, key : CallKeys, value : CallValues, ttl : {MaxTTL}]
    \cup [op : {"Get", "Evict"}, key : CallKeys, value : {NilValue}, ttl : {0}]
    \cup [op : {"GetAll", "EvictAll"}, key : {""}, value : {NilValue}, ttl : {0}]

\* A goroutine calls a method, its context not cancelled.
Invoke(p) ==
    /\ callers[p].pc = "idle"
    /\ ncalls < MaxCalls
    /\ \E k \in Calls :
          callers' = [callers EXCEPT ![p] =
                         [IdleCaller EXCEPT !.pc = "called", !.op = k.op,
                                            !.key = k.key, !.value = k.value,
                                            !.ttl = k.ttl]]
    /\ ncalls' = ncalls + 1
    /\ last' = NoCall
    /\ UNCHANGED <<CacheVars, now, touchLog, putLog, mu, ser, frames>>

\* The context of a call on its way to the mutex is cancelled.  (No method
\* looks at its context once it holds the mutex.)
Cancel(p) ==
    /\ callers[p].pc \in {"called", "waiting"}
    /\ ~callers[p].done
    /\ callers' = [callers EXCEPT ![p].done = TRUE]
    /\ last' = NoCall
    /\ UNCHANGED <<CacheVars, now, touchLog, putLog, mu, ser, ncalls, frames>>

\* Put's select on ctx.Done(), before Lock: a cancelled Put returns here.
PutSelect(p) ==
    /\ callers[p].pc = "called"
    /\ callers[p].op = "Put"
    /\ IF callers[p].done
       THEN /\ callers' = [callers EXCEPT ![p] = IdleCaller]
            /\ last' = Result("Put", callers[p].key, NilValue, ZeroTime, ErrCtx,
                              <<>>, <<>>)
       ELSE /\ callers' = [callers EXCEPT ![p].pc = "waiting"]
            /\ last' = NoCall
    /\ UNCHANGED <<CacheVars, now, touchLog, putLog, mu, ser, ncalls, frames>>

\* The goroutine is at l.m.Lock().
AtLock(p) ==
    callers[p].pc = IF callers[p].op = "Put" THEN "waiting" ELSE "called"

\* Lock returns; the call reads its context (the four methods that select
\* after Lock), the clock and the cache.
Enter(p) ==
    /\ AtLock(p)
    /\ CanLock(mu)
    /\ mu' = p
    /\ \E order \in (IF callers[p].op = "GetAll" THEN Orders(DOMAIN values)
                                                  ELSE {<<>>}) :
       \E g \in {Run(ser, callers[p], callers[p].done, now, OrderOf(order, ser))} :
          /\ callers' = [callers EXCEPT ![p].pc = "locked",
                                        ![p].obs = callers[p].done,
                                        ![p].t = now,
                                        ![p].order = order,
                                        ![p].snap = Cache,
                                        ![p].exp = g.out]
          /\ ser' = Collect(g.cache)
    /\ last' = NoCall
    /\ UNCHANGED <<CacheVars, now, touchLog, putLog, ncalls, frames>>

\* The call writes what the method computed from what it read, the deferred
\* Unlock runs and the call returns.
Exit(p) ==
    /\ callers[p].pc = "locked"
    /\ \E r \in {Run(callers[p].snap, callers[p], callers[p].obs, callers[p].t,
                     callers[p].order)} :
       \E c2 \in {Collect(r.cache)} :
          /\ Store(c2)
          /\ last' = Result(callers[p].op, callers[p].key, r.out.ret,
                            r.out.expiresAt, r.out.err, r.out.keys, r.out.vals)
          /\ mu' = Unlock(p, r.out.err)
    /\ callers' = [callers EXCEPT ![p] = IdleCaller]
    /\ UNCHANGED <<now, touchLog, putLog, ser, ncalls, frames>>

NextConcurrent ==
    \/ \E p \in Callers : Built /\ Invoke(p)
    \/ \E p \in Callers : Built /\ Cancel(p)
    \/ \E p \in Callers : Built /\ PutSelect(p)
    \/ \E p \in Callers : Built /\ Enter(p)
    \/ \E p \in Callers : Built /\ Exit(p)
    \/ Built /\ Tick

SpecConcurrent == Init /\ [][NextConcurrent]_vars

\* sync.Mutex hands the mutex to a goroutine that has waited for it (its
\* starvation mode), and the scheduler runs every runnable goroutine.
FairSpec ==
    /\ SpecConcurrent
    /\ \A p \in Callers :
          /\ WF_vars(PutSelect(p))
          /\ SF_vars(Enter(p))
          /\ WF_vars(Exit(p))

\* The goroutines between Lock and Unlock.
InSection == {p \in Callers : callers[p].pc = "locked"}

\* The step is the return of p's call from under the mutex.
Returns(p) == callers[p].pc = "locked" /\ callers'[p].pc = "idle"

\* --------------------------------------------------------------- C14
\* C14: with several goroutines calling, at most one call is between Lock
\* and Unlock and it is the holder of the mutex; the fields of the cache
\* change only in a step of the holder; every call returns what it would
\* have returned had the calls run one at a time in the order they got the
\* mutex, and whenever no call is under the mutex the cache is the one
\* those runs would have left.
C14_CallsAreAtomic ==
    /\ [](/\ Cardinality(InSection) <= 1
          /\ \A p \in InSection : mu = p
          /\ InSection = {} => Cache = ser)
    /\ [][/\ CacheVars' # CacheVars =>
                \E p \in Callers : mu = p /\ Returns(p)
          /\ \A p \in Callers :
                Returns(p) =>
                   /\ last'.ret = callers[p].exp.ret
                   /\ last'.expiresAt = callers[p].exp.expiresAt
                   /\ last'.err = callers[p].exp.err
                   /\ last'.keys = callers[p].exp.keys
                   /\ last'.vals = callers[p].exp.vals]_vars

\* A Put holds the mutex and has not written yet while another goroutine
\* waits at Lock with a Put of another key.
C14_Witness ==
    \E p, q \in Callers :
        /\ p # q
        /\ callers[p].pc = "locked" /\ callers[p].op = "Put"
        /\ callers[q].pc = "waiting" /\ callers[q].op = "Put"
        /\ callers[p].key # callers[q].key
        /\ len >= 1

\* --------------------------------------------------------------- C15
\* C15: a call whose context was cancelled when it got the mutex (the
\* cancellation came after the call started, while it was on its way to
\* the lock) returns the cancellation error and changes nothing.
C15_CancelledBeforeLockAborts ==
    [][\A p \in Callers :
          (Returns(p) /\ callers[p].obs) =>
              /\ last'.err = ErrCtx
              /\ UNCHANGED CacheVars]_vars

\* The same for the four methods that select after Lock.
C15_SelectAfterLockAborts ==
    [][\A p \in Callers :
          (Returns(p) /\ callers[p].obs /\ callers[p].op # "Put") =>
              /\ last'.err = ErrCtx
              /\ UNCHANGED CacheVars]_vars

\* --------------------------------------------------------------- C17
\* C17: the return of a call, whatever it returns, leaves the mutex free,
\* so the mutex is free whenever no call is in progress; and under fair
\* scheduling every call that was made returns.
C17_LockReleasedAndCallsReturn ==
    /\ []((\A p \in Callers : callers[p].pc = "idle") => mu = Unlocked)
    /\ [][\A p \in Callers : Returns(p) => mu' = Unlocked]_vars
    /\ \A p \in Callers : (callers[p].pc # "idle") ~> (callers[p].pc = "idle")

\* A GetAll that met an expired entry has returned and left the mutex free
\* while another call is still on its way.
C17_Witness ==
    /\ last.op = "GetAll" /\ last.err = ErrNone
    /\ Cardinality(last.held) > Len(last.keys)
    /\ mu = Unlocked
    /\ \E p \in Callers : callers[p].pc # "idle"

\* --------------------------------------------------------------- C21
\* The nodes of the recency list.
NodesListed == Range(ListNodes)

\* C21: the recency list is a well-formed doubly linked list: most and
\* least are nil exactly when len is 0; otherwise most has no prev and least
\* has no next, a listed node is the prev of its next and the next of its
\* prev, the walk from most along next meets no node twice and ends at
\* least, and every link of a listed node is nil or a listed node that the
\* index still holds.
C21_ListWellFormed ==
    /\ (most = Nil) <=> (len = 0)
    /\ (least = Nil) <=> (len = 0)
    /\ len # 0 =>
          /\ most \in DOMAIN heap /\ least \in DOMAIN heap
          /\ heap[most].prev = Nil
          /\ heap[least].next = Nil
          /\ ListNodes[Len(ListNodes)] = least
    /\ \A i, j \in DOMAIN ListNodes : i # j => ListNodes[i] # ListNodes[j]
    /\ \A n \in NodesListed :
          /\ heap[n].next \in NodesListed \cup {Nil}
          /\ heap[n].prev \in NodesListed \cup {Nil}
          /\ heap[n].next # Nil => heap[heap[n].next].prev = n
          /\ heap[n].prev # Nil => heap[heap[n].prev].next = n
          /\ heap[n].key \in DOMAIN values
          /\ values[heap[n].key] = n

\* Put of a new key into a full cache of two just dropped the tail: the
\* list has two nodes again, the new one and the old head.
C21_Witness ==
    /\ last.op = "Put" /\ last.err = ErrNone
    /\ last.key \notin last.held
    /\ Cardinality(last.held) = 2
    /\ Len(ListNodes) = 2
    /\ heap[most].key = last.key
    /\ heap[most].next = least
    /\ heap[least].key \in last.held

Fatal == [NoCall EXCEPT !.op = "fatal", !.err = "stack overflow"]

Alive == last # Fatal

\* A caller calls service.go's Service.EvictAll: its first frame.
SvcEvictAllCall ==
    /\ frames = 0
    /\ frames' = 1
    /\ last' = NoCall
    /\ UNCHANGED <<CacheVars, now, touchLog, putLog, mu, callers, ser, ncalls>>

\* service.go's Service.EvictAll: return s.EvictAll(ctx).  The method calls
\* itself, not the cache; Go keeps the frame of the caller.
SvcEvictAllRecurse ==
    /\ frames > 0
    /\ frames < StackLimit
    /\ frames' = frames + 1
    /\ last' = NoCall
    /\ UNCHANGED <<CacheVars, now, touchLog, putLog, mu, callers, ser, ncalls>>

\* The next frame does not fit the stack: the runtime ends the process.
SvcEvictAllOverflow ==
    /\ frames = StackLimit
    /\ last' = Fatal
    /\ UNCHANGED <<CacheVars, now, touchLog, putLog, concVars>>

\* The other copy's Service.EvictAll: one call of the cache's EvictAll, its
\* error wrapped.
ServiceEvictAll(c, cancelled) ==
    LET r == EvictAll(c, cancelled)
    IN [cache |-> r.cache, cacheErr |-> r.err,
        err |-> IF r.err # ErrNone
                THEN Wrap("failed to evict all", ErrChain(r.err))
                ELSE <<>>]

SvcEvictAllWrapped ==
    \E cancelled \in BOOLEAN :
        \E r \in {ServiceEvictAll(Cache, cancelled)} :
        \E c2 \in {Collect(r.cache)} :
           /\ Store(c2)
           /\ last' = ServiceResult(
                         Result("Service.EvictAll", "", NilValue, ZeroTime,
                                r.cacheErr, <<>>, <<>>),
                         r.err,
                         IF r.err # <<>> THEN StatusInternalServerError
                         ELSE StatusNoContent)
           /\ touchLog' = Held(touchLog, r.cache)
           /\ putLog' = HeldPuts(putLog, r.cache)
           /\ UNCHANGED <<now, concVars>>

\* A process that is up serves calls through the service.
Up == Built /\ Alive

\* The cache is filled through the service and emptied through either
\* copy of Service.EvictAll.
NextEvictAll ==
    \/ Up /\ SvcPut
    \/ Up /\ SvcEvictAllCall
    \/ Up /\ SvcEvictAllRecurse
    \/ Up /\ SvcEvictAllOverflow
    \/ Up /\ SvcEvictAllWrapped
    \/ Up /\ Tick

\* The scheduler runs the goroutine that is in Service.EvictAll.
SpecEvictAll ==
    /\ Init /\ [][NextEvictAll]_vars
    /\ WF_vars(Up /\ SvcEvictAllRecurse)
    /\ WF_vars(Up /\ SvcEvictAllOverflow)

\* --------------------------------------------------------------- C23
\* C23: a call of Service.EvictAll calls nothing but the cache's EvictAll,
\* once (so it never has a second frame of its own on the stack), and it
\* returns.
C23_ServiceEvictAllReturns ==
    /\ [](frames <= 1)
    /\ (frames > 0) ~> (frames = 0 /\ last.op = "Service.EvictAll")

\* The copy that calls the cache does what C23 says: it returns the
\* cache's outcome, wrapped, and on success the cache is empty.
C23_WrappedEvictAllDelegates ==
    last.op = "Service.EvictAll" =>
        /\ last.err = ErrNone =>
              /\ last.svcErr = <<>>
              /\ len = 0 /\ values = EmptyMap /\ most = Nil /\ least = Nil
        /\ last.err # ErrNone =>
              /\ Is(last.svcErr, last.err)
              /\ DOMAIN values = last.held

\* --------------------------------------------------------------- C24
\* C24: DELETE answers 204 only when Evict succeeded, so that the entry
\* was removed; it answers 404 exactly when Evict reported KeyNotFound; an
\* Evict that failed in another way (a cancelled request, the entry still
\* cached) is not answered 204.
C24_DeleteAnswers204OnlyOnSuccess ==
    last.op = "Service.Evict" =>
        /\ last.status = StatusNoContent =>
              /\ last.err = ErrNone
              /\ last.key \in last.held
              /\ last.key \notin DOMAIN values
        /\ (last.status = StatusNotFound) <=> (last.err = ErrKeyDoesNotExist)

\* The part of C24 the handler keeps: 404 exactly on KeyNotFound, and 204
\* on every success.
C24_DeleteAnswers404OnKeyNotFound ==
    last.op = "Service.Evict" =>
        /\ (last.status = StatusNotFound) <=> (last.err = ErrKeyDoesNotExist)
        /\ last.err = ErrNone => last.status = StatusNoContent

==========================================================================
